---- MODULE Spec2Model ----
(***************************************************************************)
(* A model of etl.py: extract_csv, transform, load_to_sqlite and main with *)
(* its four report queries.  Text (column names, CSV cells) is a sequence  *)
(* of one-character strings, so that strip/lower, parsing and ordering are *)
(* computed and not assumed.  Numbers are fixed-point integers counted in  *)
(* units of 1/Unit.                                                        *)
(***************************************************************************)
EXTENDS Integers, Sequences, FiniteSets, TLC

\* ------------------------------------------------------------------ bounds
\* longest row sequence of a source drawn for the transform specification
MaxRows == 3
\* runs of main the repeated-run specification follows
MaxRuns == 2

\* ------------------------------------------------------------ text helpers
\* the characters the sources use, in code-point order
Alphabet ==
    <<
       " ", "-", ".", "0", "1", "2", "3", "4", "5", "6", "7", "8", "9",
       "A", "B", "C", "D", "E", "F", "G", "H", "I", "J", "K", "L", "M",
       "N", "O", "P", "Q", "R", "S", "T", "U", "V", "W", "X", "Y", "Z",
       "_", "a", "b", "c", "d", "e", "f", "g", "h", "i", "j", "k", "l",
       "m", "n", "o", "p", "q", "r", "s", "t", "u", "v", "w", "x", "y", "z" >>

Ord(c) == CHOOSE i \in 1..Len(Alphabet) : Alphabet[i] = c

Digits == << "0", "1", "2", "3", "4", "5", "6", "7", "8", "9" >>

IsDigit(c) == \E i \in 1..10 : Digits[i] = c

DigitVal(c) == (CHOOSE i \in 1..10 : Digits[i] = c) - 1

Upper ==
    <<
       "A", "B", "C", "D", "E", "F", "G", "H", "I", "J", "K", "L", "M",
       "N", "O", "P", "Q", "R", "S", "T", "U", "V", "W", "X", "Y", "Z" >>

LowerOf ==
    <<
       "a", "b", "c", "d", "e", "f", "g", "h", "i", "j", "k", "l", "m",
       "n", "o", "p", "q", "r", "s", "t", "u", "v", "w", "x", "y", "z" >>

\* str.lower on one character
LowerChar(c) ==
    IF \E i \in 1..Len(Upper) : Upper[i] = c
    THEN LowerOf[CHOOSE i \in 1..Len(Upper) : Upper[i] = c]
    ELSE c

\* str.lower
Lower(s) == [i \in 1..Len(s) |-> LowerChar(s[i])]

\* str.strip: leading and trailing blanks removed
Strip(s) ==
    LET keep == {i \in 1..Len(s) : s[i] # " "}
    IN  IF keep = {} THEN << >>
        ELSE LET lo == CHOOSE i \in keep : \A j \in keep : i <= j
                 hi == CHOOSE i \in keep : \A j \in keep : j <= i
             IN  SubSeq(s, lo, hi)

\* lexicographic order of two texts by code point: s < t
RECURSIVE TextLess(_, _)
TextLess(s, t) ==
    IF t = << >> THEN FALSE
    ELSE IF s = << >> THEN TRUE
    ELSE IF Ord(s[1]) < Ord(t[1]) THEN TRUE
    ELSE IF Ord(s[1]) > Ord(t[1]) THEN FALSE
    ELSE TextLess(Tail(s), Tail(t))

\* the value of a run of digits
RECURSIVE DigitsVal(_)
DigitsVal(s) ==
    IF s = << >> THEN 0
    ELSE DigitsVal(SubSeq(s, 1, Len(s) - 1)) * 10 + DigitVal(s[Len(s)])

AllDigits(s) == \A i \in 1..Len(s) : IsDigit(s[i])

RECURSIVE Pow10(_)
Pow10(n) == IF n = 0 THEN 1 ELSE 10 * Pow10(n - 1)

\* ------------------------------------------------------------ cell values
\* A cell is a record [k, t, n]: k is its kind, t its text when k = "text",
\* n its number when k = "num" (in units of 1/Unit), its calendar day as
\* year*10000 + month*100 + day when k = "date", its sign when k = "inf".

\* the missing marker (NaN / NaT / None)
NaN == [k |-> "nan", t |-> << >>, n |-> 0]

Txt(s) == [k |-> "text", t |-> s, n |-> 0]

Num(x) == [k |-> "num", t |-> << >>, n |-> x]

Date(y, m, d) == [k |-> "date", t |-> << >>, n |-> y * 10000 + m * 100 + d]

\* the result of a float division of a non-zero number by zero
Inf(sign) == [k |-> "inf", t |-> << >>, n |-> sign]

isna(v) == v.k = "nan"

\* decimal places a number of the model keeps
FracDigits == 4

\* a number n stands for n / Unit
Unit == Pow10(FracDigits)

\* the number an unsigned decimal literal denotes in units of 1/Unit, or -1
ParseUnsigned(s) ==
    LET dots == {i \in 1..Len(s) : s[i] = "."}
    IN  IF s = << >> \/ Cardinality(dots) > 1 THEN -1
        ELSE IF dots = {} THEN
            IF AllDigits(s) THEN DigitsVal(s) * Unit ELSE -1
        ELSE LET d == CHOOSE i \in dots : TRUE
                 ip == SubSeq(s, 1, d - 1)
                 fp == SubSeq(s, d + 1, Len(s))
             IN  IF ~AllDigits(ip) \/ ~AllDigits(fp) \/ (ip = << >> /\ fp = << >>)
                 THEN -1
                 ELSE IF Len(fp) <= FracDigits
                 THEN DigitsVal(ip) * Unit + DigitsVal(fp) * Pow10(FracDigits - Len(fp))
                 ELSE DigitsVal(ip) * Unit + DigitsVal(SubSeq(fp, 1, FracDigits))

\* pd.to_numeric(errors="coerce") on one cell
to_numeric(v) ==
    IF v.k = "num" THEN v
    ELSE IF v.k # "text" THEN NaN
    ELSE LET s == Strip(v.t)
             neg == s # << >> /\ s[1] = "-"
             u == ParseUnsigned(IF neg THEN Tail(s) ELSE s)
         IN  IF u < 0 THEN NaN ELSE Num(IF neg THEN 0 - u ELSE u)

DaysIn(y, m) ==
    IF m \in {4, 6, 9, 11} THEN 30
    ELSE IF m = 2
         THEN IF (y % 4 = 0 /\ y % 100 # 0) \/ y % 400 = 0 THEN 29 ELSE 28
         ELSE 31

\* pd.to_datetime(errors="coerce") on one cell, for ISO dates YYYY-MM-DD
to_datetime(v) ==
    IF v.k = "date" THEN v
    ELSE IF v.k # "text" THEN NaN
    ELSE IF Len(v.t) # 10 \/ v.t[5] # "-" \/ v.t[8] # "-" THEN NaN
    ELSE LET ys == SubSeq(v.t, 1, 4)
             ms == SubSeq(v.t, 6, 7)
             ds == SubSeq(v.t, 9, 10)
         IN  IF ~AllDigits(ys) \/ ~AllDigits(ms) \/ ~AllDigits(ds) THEN NaN
             ELSE LET y == DigitsVal(ys)
                      m == DigitsVal(ms)
                      d == DigitsVal(ds)
                  IN  IF m < 1 \/ m > 12 \/ d < 1 \/ d > DaysIn(y, m) THEN NaN
                      ELSE Date(y, m, d)

\* Series.dt.year and Series.dt.month on one cell
dt_year(v) == IF v.k = "date" THEN Num((v.n \div 10000) * Unit) ELSE NaN

dt_month(v) == IF v.k = "date" THEN Num(((v.n \div 100) % 100) * Unit) ELSE NaN

\* --------------------------------------------------------------- numbers
\* n / d rounded to an integer, halves to the even neighbour (numpy.round)
RoundHalfEven(n, d) ==
    LET nn == IF d < 0 THEN 0 - n ELSE n
        dd == IF d < 0 THEN 0 - d ELSE d
        q == nn \div dd
        r == nn % dd
    IN  IF 2 * r < dd THEN q
        ELSE IF 2 * r > dd THEN q + 1
        ELSE IF q % 2 = 0 THEN q ELSE q + 1

\* n / d rounded to an integer, halves away from zero (SQLite ROUND)
RoundHalfAway(n, d) ==
    LET nn == IF d < 0 THEN 0 - n ELSE n
        dd == IF d < 0 THEN 0 - d ELSE d
        q == nn \div dd
        r == nn % dd
    IN  IF 2 * r < dd THEN q
        ELSE IF 2 * r > dd THEN q + 1
        ELSE IF nn >= 0 THEN q + 1 ELSE q

\* DivRound with the quotient cut off after the places, not rounded
DivRound_truncating(a, b, places) ==
    IF a.k # "num" \/ b.k # "num" THEN NaN
    ELSE IF b.n = 0 THEN (IF a.n = 0 THEN NaN ELSE Inf(IF a.n > 0 THEN 1 ELSE -1))
    ELSE LET n == a.n * Pow10(places)
             q == IF (n >= 0) = (b.n > 0)
                  THEN (IF n >= 0 THEN n ELSE 0 - n) \div (IF b.n > 0 THEN b.n ELSE 0 - b.n)
                  ELSE 0 - ((IF n >= 0 THEN n ELSE 0 - n) \div (IF b.n > 0 THEN b.n ELSE 0 - b.n))
         IN  Num(q * Pow10(FracDigits - places))

\* (a / b).round(places) on two cells: float division never raises
DivRound(a, b, places) ==
    IF a.k # "num" \/ b.k # "num" THEN NaN
    ELSE IF b.n = 0 THEN (IF a.n = 0 THEN NaN ELSE Inf(IF a.n > 0 THEN 1 ELSE -1))
    ELSE Num(RoundHalfEven(a.n * Pow10(places), b.n) * Pow10(FracDigits - places))

\* cell > 0 as pandas compares: False on a missing value
GtZero(v) == (v.k = "num" /\ v.n > 0) \/ (v.k = "inf" /\ v.n > 0)

\* the order sort_values puts two cells in: missing values last
CellLess(x, y) ==
    IF x.k = "nan" THEN FALSE
    ELSE IF y.k = "nan" THEN TRUE
    ELSE IF x.k = "text" /\ y.k = "text" THEN TextLess(x.t, y.t)
    ELSE x.n < y.n

\* ----------------------------------------------------------- column names
DATE == << "d", "a", "t", "e" >>

REGION == << "r", "e", "g", "i", "o", "n" >>

PRODUCT == << "p", "r", "o", "d", "u", "c", "t" >>

SALES == << "s", "a", "l", "e", "s" >>

QUANTITY == << "q", "u", "a", "n", "t", "i", "t", "y" >>

PROFIT == << "p", "r", "o", "f", "i", "t" >>

UNIT_PRICE == << "u", "n", "i", "t", "_", "p", "r", "i", "c", "e" >>

PROFIT_MARGIN == << "p", "r", "o", "f", "i", "t", "_", "m", "a", "r", "g", "i", "n" >>

YEAR == << "y", "e", "a", "r" >>

MONTH == << "m", "o", "n", "t", "h" >>

Unknown == << "U", "n", "k", "n", "o", "w", "n" >>

\* the columns transform requires
required == {DATE, REGION, PRODUCT, SALES, QUANTITY, PROFIT}

\* the columns transform returns, in order
cols == << DATE, YEAR, MONTH, REGION, PRODUCT,
           QUANTITY, UNIT_PRICE, SALES, PROFIT, PROFIT_MARGIN >>

\* ------------------------------------------------------------- DataFrame
\* A frame is [columns |-> sequence of names, rows |-> sequence of rows],
\* a row being a sequence of cells, one per column.

ColumnSet(df) == {df.columns[i] : i \in 1..Len(df.columns)}

\* the position of column c (the first of that name)
Loc(df, c) ==
    CHOOSE i \in 1..Len(df.columns) :
        df.columns[i] = c /\ \A j \in 1..(i - 1) : df.columns[j] # c

\* pd.read_csv: an empty field is a missing value, any other is kept
read_csv(file) ==
    [columns |-> file.header,
     rows |-> [i \in 1..Len(file.rows) |->
                 [j \in 1..Len(file.rows[i]) |->
                    IF file.rows[i][j] = << >> THEN NaN ELSE Txt(file.rows[i][j])]]]

\* rename without the lower()
rename_strip_only(df) ==
    [df EXCEPT !.columns = [i \in 1..Len(df.columns) |-> Strip(df.columns[i])]]

\* df.rename(columns=lambda c: c.strip().lower())
rename(df) ==
    [df EXCEPT !.columns = [i \in 1..Len(df.columns) |-> Lower(Strip(df.columns[i]))]]

\* df["date"] = pd.to_datetime(df["date"], errors="coerce")
coerce_date(df) ==
    LET c == Loc(df, DATE)
    IN  [df EXCEPT !.rows = [i \in 1..Len(df.rows) |->
                               [df.rows[i] EXCEPT ![c] = to_datetime(@)]]]

\* df[col] = pd.to_numeric(df[col], errors="coerce") for sales, quantity, profit
coerce_numeric(df) ==
    LET cs == {Loc(df, SALES), Loc(df, QUANTITY), Loc(df, PROFIT)}
    IN  [df EXCEPT !.rows = [i \in 1..Len(df.rows) |->
                               [j \in 1..Len(df.rows[i]) |->
                                  IF j \in cs THEN to_numeric(df.rows[i][j])
                                  ELSE df.rows[i][j]]]]

\* fill_cell without the fillna
fill_cell_replace_only(v) == IF v = Txt(<< >>) THEN Txt(Unknown) ELSE v

\* df["region"].fillna("Unknown").replace({"": "Unknown"}) on one cell
fill_cell(v) ==
    LET f == IF isna(v) THEN Txt(Unknown) ELSE v
    IN  IF f = Txt(<< >>) THEN Txt(Unknown) ELSE f

fill_region(df) ==
    LET c == Loc(df, REGION)
    IN  [df EXCEPT !.rows = [i \in 1..Len(df.rows) |->
                               [df.rows[i] EXCEPT ![c] = fill_cell(@)]]]

\* drop_duplicates judging rows on the six required columns alone
RECURSIVE DropDupRequired(_, _, _)
DropDupRequired(df, rows, seen) ==
    LET key == [c \in required |-> rows[1][Loc(df, c)]]
    IN  IF rows = << >> THEN << >>
        ELSE IF key \in seen THEN DropDupRequired(df, Tail(rows), seen)
        ELSE << rows[1] >> \o DropDupRequired(df, Tail(rows), seen \cup {key})

drop_duplicates_on_required(df) == [df EXCEPT !.rows = DropDupRequired(df, df.rows, {})]

\* df.drop_duplicates(): a row equal to an earlier one in every column goes
RECURSIVE DropDupRows(_, _)
DropDupRows(rows, seen) ==
    IF rows = << >> THEN << >>
    ELSE IF rows[1] \in seen THEN DropDupRows(Tail(rows), seen)
    ELSE << rows[1] >> \o DropDupRows(Tail(rows), seen \cup {rows[1]})

drop_duplicates(df) == [df EXCEPT !.rows = DropDupRows(df.rows, {})]

\* df.dropna(subset=["date", "product", "quantity", "sales", "profit"])
dropna(df) ==
    LET cs == {Loc(df, DATE), Loc(df, PRODUCT), Loc(df, QUANTITY),
               Loc(df, SALES), Loc(df, PROFIT)}
        Keep(r) == \A c \in cs : ~isna(r[c])
    IN  [df EXCEPT !.rows = SelectSeq(df.rows, Keep)]

\* positive with >= in place of >
positive_or_zero(df) ==
    LET q == Loc(df, QUANTITY)
        s == Loc(df, SALES)
        Keep(r) == r[q].k = "num" /\ r[q].n >= 0 /\ r[s].k = "num" /\ r[s].n >= 0
    IN  [df EXCEPT !.rows = SelectSeq(df.rows, Keep)]

\* df[(df["quantity"] > 0) & (df["sales"] > 0)]
positive(df) ==
    LET q == Loc(df, QUANTITY)
        s == Loc(df, SALES)
        Keep(r) == GtZero(r[q]) /\ GtZero(r[s])
    IN  [df EXCEPT !.rows = SelectSeq(df.rows, Keep)]

\* sanitize with before taken ahead of the fill and the duplicate removal
sanitize_counting_from_start(df) ==
    LET before == Len(df.rows)
        k == positive(dropna(drop_duplicates(fill_region(df))))
        after == Len(k.rows)
    IN  [df |-> k, dropped |-> before - after]

\* the "Clean values" and "Drop impossible or incomplete rows" blocks: the
\* frame they leave and the count the log line "Dropped N bad rows" carries
sanitize(df) ==
    LET d == drop_duplicates(fill_region(df))
        before == Len(d.rows)
        k == positive(dropna(d))
        after == Len(k.rows)
    IN  [df |-> k, dropped |-> before - after]

\* the "Add derived fields" block
derive(df) ==
    LET s == Loc(df, SALES)
        q == Loc(df, QUANTITY)
        p == Loc(df, PROFIT)
        d == Loc(df, DATE)
    IN  [columns |-> df.columns \o << UNIT_PRICE, PROFIT_MARGIN, YEAR, MONTH >>,
         rows |-> [i \in 1..Len(df.rows) |->
                     LET r == df.rows[i]
                     IN  r \o << DivRound(r[s], r[q], 2), DivRound(r[p], r[s], 4),
                                 dt_year(r[d]), dt_month(r[d]) >>]]

\* df[cols]
project(df) ==
    [columns |-> cols,
     rows |-> [i \in 1..Len(df.rows) |->
                 [j \in 1..Len(cols) |-> df.rows[i][Loc(df, cols[j])]]]]

\* row a sorts strictly before row b on the key (date, region, product)
KeyLess(df, a, b) ==
    LET d == Loc(df, DATE)
        g == Loc(df, REGION)
        p == Loc(df, PRODUCT)
    IN  \/ CellLess(a[d], b[d])
        \/ /\ ~CellLess(b[d], a[d])
           /\ \/ CellLess(a[g], b[g])
              \/ /\ ~CellLess(b[g], a[g])
                 /\ CellLess(a[p], b[p])

\* r put into the sorted rows after every row that does not sort after it
InsertRow(df, sorted, r) ==
    LET after == {i \in 1..Len(sorted) : KeyLess(df, r, sorted[i])}
        at == IF after = {} THEN Len(sorted) + 1
              ELSE CHOOSE i \in after : \A j \in after : i <= j
    IN  SubSeq(sorted, 1, at - 1) \o << r >> \o SubSeq(sorted, at, Len(sorted))

RECURSIVE SortRows(_, _, _)
SortRows(df, rows, sorted) ==
    IF rows = << >> THEN sorted
    ELSE SortRows(df, Tail(rows), InsertRow(df, sorted, rows[1]))

\* sort_values whose result is thrown away
sort_values_discarded(df) == df

\* df.sort_values(["date", "region", "product"]).reset_index(drop=True):
\* a stable sort
sort_values(df) == [df EXCEPT !.rows = SortRows(df, df.rows, << >>)]

NoFrame == [columns |-> << >>, rows |-> << >>]

\* transform: [error, missing, df, dropped]; error with the missing columns
\* when a required column is absent, and then no row count is logged (-1)
transform(df) ==
    LET renamed == rename(df)
        missing == required \ ColumnSet(renamed)
    IN  IF missing # {}
        THEN [error |-> TRUE, missing |-> missing, df |-> NoFrame, dropped |-> -1]
        ELSE LET clean == sanitize(coerce_numeric(coerce_date(renamed)))
             IN  [error |-> FALSE, missing |-> {},
                  df |-> sort_values(project(derive(clean.df))),
                  dropped |-> clean.dropped]

\* ------------------------------------------------------------------ SQL
\* a row of the frame as a record of the table
to_record(df, r) ==
    [date |-> r[Loc(df, DATE)], year |-> r[Loc(df, YEAR)],
     month |-> r[Loc(df, MONTH)], region |-> r[Loc(df, REGION)],
     product |-> r[Loc(df, PRODUCT)], quantity |-> r[Loc(df, QUANTITY)],
     unit_price |-> r[Loc(df, UNIT_PRICE)], sales |-> r[Loc(df, SALES)],
     profit |-> r[Loc(df, PROFIT)], profit_margin |-> r[Loc(df, PROFIT_MARGIN)]]

\* to_sql with if_exists="append"
to_sql_append(old, df) == old \o [i \in 1..Len(df.rows) |-> to_record(df, df.rows[i])]

\* df.to_sql(table, conn, if_exists="replace", index=False): the rows the
\* table holds afterwards, old being the rows it held before
to_sql(old, df) == [i \in 1..Len(df.rows) |-> to_record(df, df.rows[i])]

\* the value SUM and AVG read from a cell: a NULL does not count
SqlNum(v) == IF v.k = "num" THEN v.n ELSE 0

RECURSIVE SumSeq(_)
SumSeq(ns) == IF ns = << >> THEN 0 ELSE ns[1] + SumSeq(Tail(ns))

\* ROUND(x, 2) of x given as n / d in units of 1/Unit
Round2(n, d) == RoundHalfAway(n, d * Pow10(FracDigits - 2)) * Pow10(FracDigits - 2)

\* lexicographic order of two group keys (sequences of cells)
RECURSIVE GroupLess(_, _)
GroupLess(a, b) ==
    IF a = << >> \/ b = << >> THEN FALSE
    ELSE IF CellLess(a[1], b[1]) THEN TRUE
    ELSE IF CellLess(b[1], a[1]) THEN FALSE
    ELSE GroupLess(Tail(a), Tail(b))

\* group x comes before group y: by descending total when byTotal (rows of
\* equal total in ascending or descending group order, as asc says),
\* by ascending group key otherwise
Before(x, y, byTotal, asc) ==
    IF byTotal
    THEN \/ x.val > y.val
         \/ /\ x.val = y.val
            /\ IF asc THEN GroupLess(x.key, y.key) ELSE GroupLess(y.key, x.key)
    ELSE GroupLess(x.key, y.key)

\* ORDER BY: the groups (records [key, val]) put in sequence
RECURSIVE Ordered(_, _, _)
Ordered(groups, byTotal, asc) ==
    IF groups = {} THEN << >>
    ELSE LET g == CHOOSE x \in groups :
                      \A y \in groups \ {x} : Before(x, y, byTotal, asc)
         IN  << g >> \o Ordered(groups \ {g}, byTotal, asc)

\* LIMIT n
Limit(rows, n) == SubSeq(rows, 1, IF Len(rows) < n THEN Len(rows) ELSE n)

\* SELECT region, ROUND(SUM(sales), 2) AS total_sales
\* GROUP BY region ORDER BY total_sales DESC
total_sales_by_region(tbl, asc) ==
    LET Key(r) == << r.region >>
        keys == {Key(tbl[i]) : i \in 1..Len(tbl)}
        Total(key) == SumSeq([i \in 1..Len(tbl) |->
                        IF Key(tbl[i]) = key THEN SqlNum(tbl[i].sales) ELSE 0])
        groups == {[key |-> key, val |-> Round2(Total(key), 1)] : key \in keys}
        out == Ordered(groups, TRUE, asc)
    IN  [i \in 1..Len(out) |-> [region |-> out[i].key[1], total_sales |-> out[i].val]]

\* the sequence back to front
Reverse(q) == [i \in 1..Len(q) |-> q[Len(q) + 1 - i]]

\* top_5_products_by_profit with the DESC left out of its ORDER BY
top_5_products_by_profit_ascending(tbl, asc) ==
    LET Key(r) == << r.product >>
        keys == {Key(tbl[i]) : i \in 1..Len(tbl)}
        Total(key) == SumSeq([i \in 1..Len(tbl) |->
                        IF Key(tbl[i]) = key THEN SqlNum(tbl[i].profit) ELSE 0])
        groups == {[key |-> key, val |-> Round2(Total(key), 1)] : key \in keys}
        out == Limit(Reverse(Ordered(groups, TRUE, asc)), 5)
    IN  [i \in 1..Len(out) |-> [product |-> out[i].key[1], total_profit |-> out[i].val]]

\* SELECT product, ROUND(SUM(profit), 2) AS total_profit
\* GROUP BY product ORDER BY total_profit DESC LIMIT 5
top_5_products_by_profit(tbl, asc) ==
    LET Key(r) == << r.product >>
        keys == {Key(tbl[i]) : i \in 1..Len(tbl)}
        Total(key) == SumSeq([i \in 1..Len(tbl) |->
                        IF Key(tbl[i]) = key THEN SqlNum(tbl[i].profit) ELSE 0])
        groups == {[key |-> key, val |-> Round2(Total(key), 1)] : key \in keys}
        out == Limit(Ordered(groups, TRUE, asc), 5)
    IN  [i \in 1..Len(out) |-> [product |-> out[i].key[1], total_profit |-> out[i].val]]

\* SELECT year, month, ROUND(SUM(sales), 2) AS total_sales
\* GROUP BY year, month ORDER BY year, month
monthly_sales_summary(tbl, asc) ==
    LET Key(r) == << r.year, r.month >>
        keys == {Key(tbl[i]) : i \in 1..Len(tbl)}
        Total(key) == SumSeq([i \in 1..Len(tbl) |->
                        IF Key(tbl[i]) = key THEN SqlNum(tbl[i].sales) ELSE 0])
        groups == {[key |-> key, val |-> Round2(Total(key), 1)] : key \in keys}
        out == Ordered(groups, FALSE, asc)
    IN  [i \in 1..Len(out) |->
           [year |-> out[i].key[1], month |-> out[i].key[2], total_sales |-> out[i].val]]

\* SELECT product, ROUND(AVG(profit_margin * 100), 2) AS avg_profit_margin_percent
\* GROUP BY product ORDER BY avg_profit_margin_percent DESC
average_profit_margin_per_product(tbl, asc) ==
    LET Key(r) == << r.product >>
        keys == {Key(tbl[i]) : i \in 1..Len(tbl)}
        Total(key) == SumSeq([i \in 1..Len(tbl) |->
                        IF Key(tbl[i]) = key THEN SqlNum(tbl[i].profit_margin) * 100 ELSE 0])
        Count(key) == Cardinality({i \in 1..Len(tbl) :
                        Key(tbl[i]) = key /\ tbl[i].profit_margin.k = "num"})
        groups == {[key |-> key,
                    val |-> IF Count(key) = 0 THEN 0 ELSE Round2(Total(key), Count(key))] :
                   key \in keys}
        out == Ordered(groups, TRUE, asc)
    IN  [i \in 1..Len(out) |->
           [product |-> out[i].key[1], avg_profit_margin_percent |-> out[i].val]]

\* the queries dict of main, in its order
QueryNames ==
    << "total_sales_by_region", "top_5_products_by_profit",
       "monthly_sales_summary", "average_profit_margin_per_product" >>

\* pd.read_sql_query(sql, conn) for the query of that name
read_sql_query(name, tbl, asc) ==
    CASE name = "total_sales_by_region" -> total_sales_by_region(tbl, asc)
      [] name = "top_5_products_by_profit" -> top_5_products_by_profit(tbl, asc)
      [] name = "monthly_sales_summary" -> monthly_sales_summary(tbl, asc)
      [] OTHER -> average_profit_margin_per_product(tbl, asc)

\* -------------------------------------------------------------- sources
\* A source file is [exists, header, rows]: whether the path exists, the
\* header line and the data lines, every field a text.

D1 == << "2", "0", "2", "4", "-", "0", "1", "-", "0", "5" >>

D2 == << "2", "0", "2", "4", "-", "0", "2", "-", "0", "1" >>

NotADate == << "n", "o", "t", "-", "a", "-", "d", "a", "t", "e" >>

\* the six required columns and one extra column
Header == << DATE, REGION, PRODUCT, SALES, QUANTITY, PROFIT, << "n", "o", "t", "e" >> >>

\* the same columns as an export spells them
MessyHeader ==
    << << " ", "D", "a", "t", "e" >>, << "R", "E", "G", "I", "O", "N", " " >>,
       << "P", "r", "o", "d", "u", "c", "t" >>, << "S", "A", "L", "E", "S" >>,
       << " ", "Q", "u", "a", "n", "t", "i", "t", "y", " " >>,
       << "p", "r", "o", "f", "i", "t" >>, << "N", "o", "t", "e" >> >>

\* headers that lack required columns: profit; sales and quantity (with the
\* rest spelled as an export spells them); all but date
NoProfitHeader == << DATE, REGION, PRODUCT, SALES, QUANTITY >>

NoSalesQuantityHeader ==
    << << "D", "A", "T", "E", " " >>, << " ", "R", "e", "g", "i", "o", "n" >>,
       << "P", "R", "O", "D", "U", "C", "T" >>, << "P", "r", "o", "f", "i", "t" >> >>

OnlyDateHeader == << << "D", "a", "t", "e" >>, << "n", "o", "t", "e" >> >>

Widget == << "W" >>

Gadget == << "G" >>

East == << "E" >>

\* the data lines the transform specification draws from
Rows ==
    { << D1, East, Widget, << "1", "0", "0" >>, << "1", "0" >>, << "2", "0" >>, << "x" >> >>,
      << D1, East, Widget, << "1", "0", "0" >>, << "1", "0" >>, << "2", "0" >>, << "y" >> >>,
      << D1, East, Widget, << "7" >>, << "3" >>, << "1" >>, << "x" >> >>,
      << D2, << >>, Gadget, << "5", "0" >>, << "5" >>, << "-", "5" >>, << "x" >> >>,
      << D2, Unknown, Gadget, << "5", "0" >>, << "5" >>, << "-", "5" >>, << "x" >> >>,
      << D1, East, Gadget, << "1", "0", "0" >>, << "0" >>, << "2", "0" >>, << "x" >> >>,
      << NotADate, East, Gadget, << "7" >>, << "3" >>, << "1" >>, << "x" >> >>,
      << D1, East, << >>, << "0", ".", "1", "2", "5" >>, << "1" >>, << "o", "o", "p", "s" >>, << "x" >> >>,
      << D1, << "W" >>, Gadget, << "0", ".", "1", "2", "5" >>, << "1" >>, << "0", ".", "0", "1" >>, << >> >> }

Seqs(S, n) == UNION {[1..k -> S] : k \in 0..n}

\* the sources of the transform specification
Sources == {[exists |-> TRUE, header |-> Header, rows |-> rs] : rs \in Seqs(Rows, MaxRows)}

MissingFile == [exists |-> FALSE, header |-> << >>, rows |-> << >>]

FileA ==
    [exists |-> TRUE, header |-> Header,
     rows |-> << << D2, << >>, Gadget, << "5", "0" >>, << "5" >>, << "-", "5" >>, << "x" >> >>,
                 << D1, East, Widget, << "1", "0", "0" >>, << "1", "0" >>, << "2", "0" >>, << "x" >> >>,
                 << D1, East, Widget, << "1", "0", "0" >>, << "1", "0" >>, << "2", "0" >>, << "x" >> >> >>]

FileB ==
    [exists |-> TRUE, header |-> MessyHeader,
     rows |-> << << D1, << "W" >>, Gadget, << "7" >>, << "3" >>, << "1" >>, << >> >>,
                 << D1, East, Gadget, << "1", "0", "0" >>, << "0" >>, << "2", "0" >>, << "x" >> >> >>]

FileNoProfit ==
    [exists |-> TRUE, header |-> NoProfitHeader,
     rows |-> << << D1, East, Widget, << "1", "0", "0" >>, << "1", "0" >> >> >>]

FileNoSalesQuantity ==
    [exists |-> TRUE, header |-> NoSalesQuantityHeader,
     rows |-> << << D1, East, Widget, << "2", "0" >> >> >>]

FileOnlyDate ==
    [exists |-> TRUE, header |-> OnlyDateHeader, rows |-> << << D1, << "x" >> >> >>]

\* the sources of the repeated-run specification
RunSources == {MissingFile, FileA, FileB, FileNoProfit, FileNoSalesQuantity, FileOnlyDate}

\* one data line of a six-product source
TopRow(product, profit) ==
    << D1, East, product, << "1", "0" >>, << "1" >>, profit, << "x" >> >>

\* per product, the data lines a six-product source may hold for it
TopOptions ==
    << { << TopRow(<< "A" >>, << "5" >>), TopRow(<< "A" >>, << "0", ".", "5" >>) >>,
         << TopRow(<< "A" >>, << "3" >>) >> },
       { << TopRow(<< "B" >>, << "4" >>) >>, << TopRow(<< "B" >>, << "3" >>) >> },
       { << TopRow(<< "C" >>, << "3" >>) >>, << >> },
       { << TopRow(<< "D" >>, << "2" >>) >>,
         << TopRow(<< "D" >>, << "1", ".", "0", "0", "4" >>) >> },
       { << TopRow(<< "E" >>, << "1" >>) >>,
         << TopRow(<< "E" >>, << "1", ".", "0", "0", "1" >>) >> },
       { << TopRow(<< "F" >>, << "-", "1" >>) >>,
         << TopRow(<< "F" >>, << "1", ".", "0", "0", "4" >>) >>, << >> } >>

RECURSIVE Concat(_)
Concat(ss) == IF ss = << >> THEN << >> ELSE ss[1] \o Concat(Tail(ss))

\* the sources of the report specification
TopSources ==
    {[exists |-> TRUE, header |-> Header, rows |-> Concat(f)] :
       f \in {g \in [1..Len(TopOptions) -> UNION {TopOptions[i] : i \in 1..Len(TopOptions)}] :
                \A i \in 1..Len(TopOptions) : g[i] \in TopOptions[i]}}

\* ----------------------------------------------------------------- state
VARIABLES
    csv,       \* the file at RAW_CSV
    pc,        \* the step main takes next: "extract", "transform", "load",
               \* "query", or "done" / "failed" once main has returned / raised
    qi,        \* the position in the queries dict of the next query
    df_raw,    \* main's df_raw
    df_clean,  \* main's df_clean
    dropped,   \* N of the log line "Dropped N bad rows", -1 before it is logged
    failure,   \* the exception that ended the run, "none" while there is none
    err,       \* the column names the ValueError message carries
    table,     \* the rows of table sales_clean in the database
    reports,   \* per query name, the CSV artifact: [exists, rows]
    asc,       \* how this SQLite build orders rows of equal ORDER BY value
    runs,      \* the runs of main so far, this one included
    stages,    \* the steps this run has completed, in order
    prev       \* the source, table and artifacts as the run before left them

vars == << csv, pc, qi, df_raw, df_clean, dropped, failure, err, table, reports,
           asc, runs, stages, prev >>

NoReports == [n \in {QueryNames[i] : i \in 1..Len(QueryNames)} |->
                [exists |-> FALSE, rows |-> << >>]]

\* a run of main about to start on source file src
Start(src) ==
    /\ csv = src
    /\ pc = "extract"
    /\ qi = 1
    /\ df_raw = NoFrame
    /\ df_clean = NoFrame
    /\ dropped = -1
    /\ failure = "none"
    /\ err = {}
    /\ stages = << >>

Fresh ==
    /\ table = << >>
    /\ reports = NoReports
    /\ runs = 1
    /\ prev = [csv |-> MissingFile, table |-> << >>, reports |-> NoReports, ok |-> FALSE]

Init == /\ \E src \in RunSources : Start(src)
        /\ asc \in BOOLEAN
        /\ Fresh

InitTransform == /\ \E src \in Sources : Start(src)
                 /\ asc = TRUE
                 /\ Fresh

InitReport == /\ \E src \in TopSources : Start(src)
              /\ asc \in BOOLEAN
              /\ Fresh

\* main raises exc
Raise(exc) ==
    /\ failure' = exc
    /\ pc' = "failed"

\* df_raw = extract_csv(RAW_CSV)
extract_csv ==
    /\ pc = "extract"
    /\ IF ~csv.exists
       THEN /\ Raise("FileNotFoundError")
            /\ UNCHANGED << df_raw, stages >>
       ELSE /\ df_raw' = read_csv(csv)
            /\ pc' = "transform"
            /\ failure' = failure
            /\ stages' = Append(stages, "extract")
    /\ UNCHANGED << csv, qi, df_clean, dropped, err, table, reports, asc, runs, prev >>

\* Transform with the ValueError logged and not raised
Transform_continues ==
    /\ pc = "transform"
    /\ LET r == transform(df_raw)
       IN  /\ df_clean' = r.df
           /\ dropped' = r.dropped
           /\ pc' = "load"
           /\ err' = r.missing
           /\ failure' = IF r.error THEN "ValueError" ELSE failure
           /\ stages' = Append(stages, "transform")
    /\ UNCHANGED << csv, qi, df_raw, table, reports, asc, runs, prev >>

\* df_clean = transform(df_raw)
Transform ==
    /\ pc = "transform"
    /\ LET r == transform(df_raw)
       IN  IF r.error
           THEN /\ Raise("ValueError")
                /\ err' = r.missing
                /\ UNCHANGED << df_clean, dropped, stages >>
           ELSE /\ df_clean' = r.df
                /\ dropped' = r.dropped
                /\ pc' = "load"
                /\ UNCHANGED << failure, err >>
                /\ stages' = Append(stages, "transform")
    /\ UNCHANGED << csv, qi, df_raw, table, reports, asc, runs, prev >>

\* load_to_sqlite(df_clean, DB_PATH, TABLE_NAME); a write the store refuses
\* leaves the table as it was or, the old table dropped, empty
load_to_sqlite ==
    /\ pc = "load"
    /\ \/ /\ table' = to_sql(table, df_clean)
          /\ pc' = "query"
          /\ failure' = failure
          /\ stages' = Append(stages, "load")
       \/ /\ Raise("StoreWriteError")
          /\ table' \in {table, << >>}
          /\ stages' = stages
    /\ UNCHANGED << csv, qi, df_raw, df_clean, dropped, err, reports, asc, runs, prev >>

\* one turn of the loop over queries.items(): read_sql_query, then to_csv
run_query ==
    /\ pc = "query"
    /\ LET name == QueryNames[qi]
       IN  \/ /\ reports' = [reports EXCEPT ![name] =
                               [exists |-> TRUE, rows |-> read_sql_query(name, table, asc)]]
              /\ stages' = Append(stages, name)
              /\ failure' = failure
              /\ IF qi = Len(QueryNames)
                 THEN pc' = "done" /\ qi' = qi
                 ELSE pc' = "query" /\ qi' = qi + 1
           \/ /\ Raise("StoreQueryError")
              /\ UNCHANGED << reports, stages, qi >>
    /\ UNCHANGED << csv, df_raw, df_clean, dropped, err, table, asc, runs, prev >>

\* main is run again, on the source file as it then is
Rerun ==
    /\ pc \in {"done", "failed"}
    /\ runs < MaxRuns
    /\ \E src \in RunSources : csv' = src
    /\ pc' = "extract"
    /\ qi' = 1
    /\ df_raw' = NoFrame
    /\ df_clean' = NoFrame
    /\ dropped' = -1
    /\ failure' = "none"
    /\ err' = {}
    /\ stages' = << >>
    /\ prev' = [csv |-> csv, table |-> table, reports |-> reports, ok |-> pc = "done"]
    /\ runs' = runs + 1
    /\ UNCHANGED << table, reports, asc >>

\* main up to the end of load_to_sqlite
NextLoad == extract_csv \/ Transform \/ load_to_sqlite

\* one run of main
NextOnce == NextLoad \/ run_query

Next == NextOnce \/ Rerun

\* runs of main, one after another, on a small set of source files
Spec == Init /\ [][Next]_vars

\* main up to the end of load_to_sqlite, on every sequence of at most MaxRows
\* data lines
SpecTransform == InitTransform /\ [][NextLoad]_vars

\* one run of main on sources of up to six products
SpecReport == InitReport /\ [][NextOnce]_vars

\* --------------------------------------------------- reading the state
\* this run has completed the step
Completed(stage) == \E k \in 1..Len(stages) : stages[k] = stage

\* the records transform returned to main
CleanRecords == [i \in 1..Len(df_clean.rows) |-> to_record(df_clean, df_clean.rows[i])]

\* field c of data line i of the source file, as text
Src(i, c) == csv.rows[i][Loc(rename([columns |-> csv.header, rows |-> << >>]), c)]

\* data line i holds a date, a product, a positive quantity, positive sales
\* and a profit
SrcValid(i) ==
    /\ to_datetime(Txt(Src(i, DATE))).k = "date"
    /\ Src(i, PRODUCT) # << >>
    /\ to_numeric(Txt(Src(i, QUANTITY))).k = "num"
    /\ to_numeric(Txt(Src(i, QUANTITY))).n > 0
    /\ to_numeric(Txt(Src(i, SALES))).k = "num"
    /\ to_numeric(Txt(Src(i, SALES))).n > 0
    /\ to_numeric(Txt(Src(i, PROFIT))).k = "num"

\* the source rows typed and with the region sentinel filled in, as the
\* duplicate removal sees them
Filled == fill_region(coerce_numeric(coerce_date(rename(read_csv(csv))))).rows

\* the positions of the rows of f that equal no earlier row
Firsts(f) == {i \in 1..Len(f) : \A j \in 1..(i - 1) : f[j] # f[i]}

\* ------------------------------------------------------------------- C1
\* a record with date, product, quantity, sales and profit present,
\* quantity and sales positive, and both quotients finite numbers
ValidRecord(r) ==
    /\ r.date.k = "date"
    /\ r.product.k = "text"
    /\ r.quantity.k = "num" /\ r.quantity.n > 0
    /\ r.sales.k = "num" /\ r.sales.n > 0
    /\ r.profit.k = "num"
    /\ r.unit_price.k = "num"
    /\ r.profit_margin.k = "num"

\* C1: every record transform returns, and every record of the table, has
\* date, product, quantity, sales and profit present and quantity > 0 and
\* sales > 0, so that neither division saw a zero or missing divisor.
C1_ValidRecords ==
    LET recs == CleanRecords
    IN  /\ \A i \in 1..Len(recs) : ValidRecord(recs[i])
        /\ \A i \in 1..Len(table) : ValidRecord(table[i])

\* a loaded table from a source that holds a zero quantity and a malformed date
C1_Witness ==
    /\ Completed("load")
    /\ Len(table) >= 1
    /\ \E i \in 1..Len(csv.rows) : Src(i, QUANTITY) = << "0" >>
    /\ \E i \in 1..Len(csv.rows) : Src(i, DATE) = NotADate

\* ------------------------------------------------------------------- C3
\* record a does not sort after record b on (date, region, product)
KeyLeq(a, b) ==
    \/ a.date.n < b.date.n
    \/ /\ a.date.n = b.date.n
       /\ \/ TextLess(a.region.t, b.region.t)
          \/ /\ a.region.t = b.region.t
             /\ ~TextLess(b.product.t, a.product.t)

SortKeys(recs) == [i \in 1..Len(recs) |-> << recs[i].date, recs[i].region, recs[i].product >>]

\* the reorderings of n lines that exchange two of them; every reordering
\* is a chain of these, and the sources hold the lines in every order
Swaps(n) ==
    {[k \in 1..n |-> IF k = i THEN j ELSE IF k = j THEN i ELSE k] :
       i \in 1..n, j \in 1..n}

\* the source file with its data lines in the order f
Permuted(f) == [csv EXCEPT !.rows = [i \in 1..Len(csv.rows) |-> csv.rows[f[i]]]]

\* C3: the records transform returns are in ascending order of
\* (date, region, product), and the same data lines with any two of them
\* exchanged give the same sequence of keys.
C3_Sorted ==
    LET recs == CleanRecords
        keys == SortKeys(recs)
    IN  pc = "load" =>
            /\ \A i, j \in 1..Len(recs) : i < j => KeyLeq(recs[i], recs[j])
            /\ \A f \in Swaps(Len(csv.rows)) :
                   LET out == transform(read_csv(Permuted(f))).df
                   IN  SortKeys([i \in 1..Len(out.rows) |-> to_record(out, out.rows[i])])
                           = keys

\* three records returned from data lines that were not in key order
C3_Witness ==
    LET recs == CleanRecords
    IN  /\ pc = "load"
        /\ Len(recs) = 3
        /\ to_datetime(Txt(Src(1, DATE))) = recs[3].date
        /\ recs[1].date # recs[3].date
        /\ recs[1].region # recs[2].region

\* ------------------------------------------------------------------- C4
\* r, a filled row of frame d, with date, product, quantity, sales and profit present and
\* quantity and sales positive
FilledValid(d, r) ==
    /\ \A c \in {DATE, PRODUCT, QUANTITY, SALES, PROFIT} : r[Loc(d, c)].k # "nan"
    /\ r[Loc(d, QUANTITY)].n > 0
    /\ r[Loc(d, SALES)].n > 0

\* C4: the records correspond one to one to the distinct valid rows, rows
\* being compared on every column of the source, the extra ones included,
\* after the region sentinel is filled in; the duplicate removal keeps the
\* rows that equal no earlier row, in their order.
C4_NoDuplicates ==
    LET d == rename(read_csv(csv))
        f == Filled
        first == Firsts(f)
        kept == drop_duplicates([columns |-> d.columns, rows |-> f]).rows
    IN  /\ pc = "load" =>
               /\ Len(df_clean.rows) =
                      Cardinality({f[i] : i \in {j \in 1..Len(f) : FilledValid(d, f[j])}})
               /\ Len(kept) = Cardinality(first)
               /\ \A i \in first : kept[Cardinality({j \in first : j <= i})] = f[i]
        /\ Completed("load") => table = CleanRecords

\* two equal data lines loaded as one record of unit price 10.0 and margin 0.2
C4_Witness ==
    /\ Completed("load")
    /\ Len(csv.rows) = 2
    /\ csv.rows[1] = csv.rows[2]
    /\ Len(table) = 1
    /\ table[1].unit_price = Num(10 * Unit)
    /\ table[1].profit_margin = Num(2 * (Unit \div 10))

\* ------------------------------------------------------------------- C5
\* C5 as stated: the logged count is the number of data lines of the source
\* less the number of rows left after the positivity filter.
C5_CountsFromOriginal ==
    pc = "load" => dropped = Len(csv.rows) - Len(df_clean.rows)

\* C5 as amended: the logged count is the number of rows left after the
\* duplicate removal less the number left after the positivity filter; the
\* rows removed as duplicates are not in it.
C5_CountsAfterDuplicates ==
    pc = "load" => dropped = Cardinality(Firsts(Filled)) - Len(df_clean.rows)

\* a run that logged a count from a source with a duplicate and a bad row
C5_Witness ==
    /\ pc = "load"
    /\ dropped >= 1
    /\ Cardinality(Firsts(Filled)) < Len(csv.rows)

\* ------------------------------------------------------------------- C9
\* C9: no record has a missing or empty region, and every data line with an
\* empty region field that holds a date, a product, positive quantity and
\* sales and a profit of either sign is returned with region "Unknown".
C9_RegionFilled ==
    LET recs == CleanRecords
    IN  /\ \A i \in 1..Len(recs) : recs[i].region.k = "text" /\ recs[i].region.t # << >>
        /\ \A i \in 1..Len(table) : table[i].region.k = "text" /\ table[i].region.t # << >>
        /\ pc = "load" =>
               \A i \in 1..Len(csv.rows) :
                   (Src(i, REGION) = << >> /\ SrcValid(i)) =>
                       \E k \in 1..Len(recs) :
                           /\ recs[k].region = Txt(Unknown)
                           /\ recs[k].date = to_datetime(Txt(Src(i, DATE)))
                           /\ recs[k].product = Txt(Src(i, PRODUCT))
                           /\ recs[k].quantity = to_numeric(Txt(Src(i, QUANTITY)))
                           /\ recs[k].sales = to_numeric(Txt(Src(i, SALES)))
                           /\ recs[k].profit = to_numeric(Txt(Src(i, PROFIT)))
        /\ Completed("load") => table = recs

\* the data line ("2024-02-01", "", "Gadget", "5", "50", "-5") loaded with
\* region "Unknown" and its negative profit
C9_Witness ==
    /\ Completed("load")
    /\ \E i \in 1..Len(csv.rows) : Src(i, REGION) = << >> /\ Src(i, PROFIT) = << "-", "5" >>
    /\ \E k \in 1..Len(table) :
           table[k].region = Txt(Unknown) /\ table[k].profit = Num(0 - 5 * Unit)

\* ------------------------------------------------------------------ C10
Abs(x) == IF x < 0 THEN 0 - x ELSE x

\* v, a whole number of steps, is n / d rounded to steps of 1/scale, halves
\* to the even step (n, d and v in units of 1/Unit, d > 0)
IsRounded(v, n, d, scale) ==
    LET step == Unit \div scale
        m == v \div step
        diff == Abs(m * d - scale * n)
    IN  /\ v % step = 0
        /\ diff <= d \div 2
        /\ (2 * diff = d) => m % 2 = 0

\* C10: in every record unit_price is sales / quantity rounded to 2 places,
\* profit_margin is profit / sales rounded to 4 places, both of that record's
\* own fields, and year and month are those of its date.
C10_Derived ==
    \A i \in 1..Len(table) :
        LET r == table[i]
        IN  /\ r.unit_price.k = "num"
            /\ IsRounded(r.unit_price.n, r.sales.n, r.quantity.n, 100)
            /\ r.profit_margin.k = "num"
            /\ IsRounded(r.profit_margin.n, r.profit.n, r.sales.n, 10000)
            /\ \E day \in 1..31 :
                   r.date = Date(r.year.n \div Unit, r.month.n \div Unit, day)
            /\ r.year.n % Unit = 0
            /\ r.month.n % Unit = 0

\* a record of sales 7, quantity 3, profit 1: unit price 2.33, margin 0.1429
C10_Witness ==
    \E i \in 1..Len(table) :
        /\ table[i].sales = Num(7 * Unit)
        /\ table[i].quantity = Num(3 * Unit)
        /\ table[i].unit_price = Num(233 * (Unit \div 100))
        /\ table[i].profit_margin = Num(1429 * (Unit \div 10000))

\* ------------------------------------------------------------------- C2
\* C2: once a run has loaded, the table holds the records transform returned
\* to that run and no other; a run that ends well on the source the run
\* before ended well on leaves the table and all four artifacts as that run
\* left them.
C2_Replace ==
    /\ Completed("load") => table = CleanRecords
    /\ (pc = "done" /\ prev.ok /\ prev.csv = csv) =>
           table = prev.table /\ reports = prev.reports

\* a second run that ended well on the source of the first, the table not empty
C2_Witness ==
    /\ runs = 2
    /\ pc = "done"
    /\ prev.ok
    /\ prev.csv = csv
    /\ Len(table) >= 2
    /\ Len(reports["total_sales_by_region"].rows) >= 1

\* ------------------------------------------------------------------- C6
\* the required columns the header lacks once its names are trimmed and
\* lowercased
Absent ==
    {c \in required : \A i \in 1..Len(csv.header) : Lower(Strip(csv.header[i])) # c}

\* C6: a run on a source whose header lacks a required column ends in a
\* ValueError that carries exactly the columns it lacks, right after the
\* extract, with no row count logged and the table and the artifacts as they
\* were when the run began; a run ends in a ValueError in no other case.
C6_SchemaError ==
    /\ failure = "ValueError" =>
           /\ Absent # {}
           /\ err = Absent
           /\ pc = "failed"
           /\ stages = << "extract" >>
           /\ dropped = -1
           /\ df_clean = NoFrame
           /\ table = prev.table
           /\ reports = prev.reports
    /\ (csv.exists /\ Absent # {} /\ pc \notin {"extract", "transform"}) =>
           failure = "ValueError"

\* a ValueError naming two columns, on a header spelled as an export spells
\* it, in a run that began with a loaded table
C6_Witness ==
    /\ failure = "ValueError"
    /\ err = {SALES, QUANTITY}
    /\ csv.header = NoSalesQuantityHeader
    /\ Len(prev.table) >= 1
    /\ prev.reports["monthly_sales_summary"].exists

\* ------------------------------------------------------------------- C7
\* the steps of a run, in order
Order == << "extract", "transform", "load" >> \o QueryNames

\* C7: the steps a run has completed are a prefix of extract, transform,
\* load and the four queries in order; the run has ended well exactly when
\* all of them are completed; once a step has failed the run is over, and
\* from then on it changes neither the table nor an artifact.
C7_Stages ==
    /\ [](/\ Len(stages) <= Len(Order)
          /\ stages = SubSeq(Order, 1, Len(stages))
          /\ (pc = "done") <=> (stages = Order)
          /\ (failure # "none") <=> (pc = "failed"))
    /\ [][(failure' # "none") =>
              /\ reports' = reports
              /\ stages' = stages
              /\ (failure # "none" => table' = table)]_vars

\* a run ended by the third query: two artifacts written, two not
C7_Witness ==
    /\ runs = 1
    /\ failure = "StoreQueryError"
    /\ stages = SubSeq(Order, 1, 5)
    /\ reports[QueryNames[2]].exists
    /\ ~reports[QueryNames[3]].exists
    /\ ~reports[QueryNames[4]].exists

\* ------------------------------------------------------------------- C8
\* the products of the table
Products == {table[i].product : i \in 1..Len(table)}

\* the sum of the profit of the records of product p
ProfitOf(p) ==
    SumSeq([i \in 1..Len(table) |-> IF table[i].product = p THEN table[i].profit.n ELSE 0])

\* v is s rounded to 2 places, halves away from zero
IsRound2(v, s) ==
    LET step == Unit \div 100
    IN  /\ v % step = 0
        /\ 2 * Abs(v - s) <= step
        /\ (2 * Abs(v - s) = step) => Abs(v) > Abs(s)

\* the totals a report over these sources can show
Hundredths == {(Unit \div 100) * k : k \in -1000..1000}

Top5 == reports["top_5_products_by_profit"].rows

\* C8 as stated: one row per product with its summed profit, descending,
\* truncated to min(5, products), no product left out above one included,
\* and on six products 5 rows with strictly descending totals.
C8_AsStated ==
    Completed("top_5_products_by_profit") =>
        /\ \A i \in 1..Len(Top5) :
               Top5[i].product \in Products /\ Top5[i].total_profit = ProfitOf(Top5[i].product)
        /\ \A i, j \in 1..Len(Top5) :
               i < j => /\ Top5[i].product # Top5[j].product
                        /\ Top5[i].total_profit >= Top5[j].total_profit
        /\ Len(Top5) = IF Cardinality(Products) < 5 THEN Cardinality(Products) ELSE 5
        /\ \A p \in Products \ {Top5[i].product : i \in 1..Len(Top5)} :
               \A i \in 1..Len(Top5) : ProfitOf(p) <= ProfitOf(Top5[i].product)
        /\ Cardinality(Products) = 6 =>
               /\ Len(Top5) = 5
               /\ \A i, j \in 1..Len(Top5) :
                      i < j => Top5[i].total_profit > Top5[j].total_profit

\* C8 as amended: one row per product with its summed profit rounded to 2
\* places, in non-increasing order of that rounded total, truncated to
\* min(5, products), no product left out with a rounded total above that of
\* one included, and on six products 5 rows.
C8_Top5 ==
    Completed("top_5_products_by_profit") =>
        /\ \A i \in 1..Len(Top5) :
               /\ Top5[i].product \in Products
               /\ IsRound2(Top5[i].total_profit, ProfitOf(Top5[i].product))
        /\ \A i, j \in 1..Len(Top5) :
               i < j => /\ Top5[i].product # Top5[j].product
                        /\ Top5[i].total_profit >= Top5[j].total_profit
        /\ Len(Top5) = IF Cardinality(Products) < 5 THEN Cardinality(Products) ELSE 5
        /\ \A p \in Products \ {Top5[i].product : i \in 1..Len(Top5)} :
               \A v \in Hundredths :
                   IsRound2(v, ProfitOf(p)) =>
                       \A i \in 1..Len(Top5) : v <= Top5[i].total_profit
        /\ Cardinality(Products) = 6 => Len(Top5) = 5

\* six products, five rows, two of them with the same rounded total
C8_Witness ==
    /\ Completed("top_5_products_by_profit")
    /\ Cardinality(Products) = 6
    /\ Len(Top5) = 5
    /\ \E i \in 1..4 : Top5[i].total_profit = Top5[i + 1].total_profit

====
